---- MODULE Spec2Model ----
(***************************************************************************)
(* Block-to-action normalizer of the TON indexer                           *)
(* (indexer/events/blocks/utils/block_tree_serializer.py).                 *)
(*                                                                         *)
(* block_to_action(block, trace_id) is a pure transform with two kinds of  *)
(* side effect: log records and escaping exceptions.  A call is modelled   *)
(* as a small process: start -> dispatch -> assemble -> done, or -> raised *)
(* when an exception escapes.  Up to two calls are made on the same        *)
(* inputs, in one interpreter process or two, so that re-processing can be *)
(* compared.                                                               *)
(*                                                                         *)
(* Representation.  Python None is the string None.  Python ints that are  *)
(* only copied around (amounts, opcodes, indexes) are decimal strings.     *)
(* An optional object reference is a sequence of length 0 or 1.            *)
(***************************************************************************)
EXTENDS Integers, Sequences, FiniteSets, TLC

\* Largest number of event nodes in a block.
MaxNodes == 2

None == "None"
\* A dict key that is not in the payload (`"k" in block.data` is False).
Missing == "<missing>"
\* An attribute of Action that was never assigned.
Unset == <<>>

-----------------------------------------------------------------------------
(* Objects of the input: AccountId, Asset, Amount.                         *)

\* AccountId.as_str(): the canonical address string of an AccountId object.
AsStrTable ==
    ("AccountId(S)" :> "0:S") @@ ("AccountId(SW)" :> "0:SW") @@
    ("AccountId(D)" :> "0:D") @@ ("AccountId(DW)" :> "0:DW") @@
    ("AccountId(J)" :> "0:J") @@ ("AccountId(J2)" :> "0:J2") @@
    ("AccountId(C)" :> "0:C") @@ ("AccountId(N)" :> "0:N") @@
    ("AccountId(P)" :> "0:P")

AccountIds == DOMAIN AsStrTable

as_str(a) == AsStrTable[a]

\* Asset.jetton_address: None for the native currency.
JettonAddressTable ==
    ("Asset(TON)" :> None) @@ ("Asset(J)" :> "AccountId(J)") @@
    ("Asset(J2)" :> "AccountId(J2)")

Assets == DOMAIN JettonAddressTable

jetton_address(asset) == JettonAddressTable[asset]

is_ton(asset) == asset = "Asset(TON)"

\* Amount.value
ValueTable == ("Amount(0)" :> "0") @@ ("Amount(3)" :> "3") @@ ("Amount(7)" :> "7")

Amounts == DOMAIN ValueTable

value(amount) == ValueTable[amount]

\* _addr: AccountId | Asset | None -> str | None
_addr(addr) ==
    IF addr = None THEN None
    ELSE IF addr \in Assets
         THEN (IF jetton_address(addr) # None THEN as_str(jetton_address(addr)) ELSE None)
         ELSE as_str(addr)

\* `block.data.k.as_str()` or `block.data.k.value` on a payload object raises
\* AttributeError when the attribute k is None or absent.
Deref(x) == x # None /\ x # Missing

\* `"k" not in block.data`, for a value of any type.
KeyAbsent(x) == ToString(x) = ToString(Missing)

\* `x is None`, for a value of any type.
IsNone(x) == ToString(x) = ToString(None)

\* `if x:` on a flag that may be None.
Truthy(x) == IF KeyAbsent(x) \/ IsNone(x) THEN FALSE ELSE x

\* One step of a normalizer that can raise: whether it passes, and the
\* exception it raises when it does not.
Check(ok, exc) == [ok |-> ok, exc |-> exc]

\* block.data["k"]: KeyError when the key is not in the dict.
HasKey(x) == <<Check(~KeyAbsent(x), "KeyError")>>

\* x.as_str(), x.value, x.hex(), x.jetton_address: AttributeError when x is None.
NotNone(x) == <<Check(~IsNone(x), "AttributeError")>>

\* block.data["k"].as_str() and the like.
Attr(x) == HasKey(x) \o NotNone(x)

NoFault == ""

\* The exception of the first step, in evaluation order, that does not pass.
FirstFault(checks) ==
    LET bad == {i \in DOMAIN checks : ~checks[i].ok}
    IN  IF bad = {} THEN NoFault
        ELSE checks[CHOOSE i \in bad : \A j \in bad : i <= j].exc

\* asset.jetton_address.as_str() on an asset that was read.
JettonAddressNotNone(asset) ==
    <<Check(IF KeyAbsent(asset) \/ IsNone(asset) THEN TRUE
            ELSE jetton_address(asset) # None, "AttributeError")>>

-----------------------------------------------------------------------------
(* Event nodes.                                                            *)

\* An event node: is_tick_tock, its logical time, its transaction hash (None
\* when unavailable), the account of its transaction, and the hash of its
\* inbound message (None when it carries no message: a tick-tock node).
MsgNode(lt, tx, acc, msg) ==
    [is_tick_tock |-> FALSE, lt |-> lt, tx_hash |-> tx, account |-> acc, msg_hash |-> msg]

TickTockNode(lt, tx, acc) ==
    [is_tick_tock |-> TRUE, lt |-> lt, tx_hash |-> tx, account |-> acc, msg_hash |-> None]

get_lt(n) == n.lt

get_tx_hash(n) == n.tx_hash

HasMessage(n) == n.msg_hash # None

\* n.tick_tock_tx.account
tick_tock_account(n) == n.account

\* n.message.transaction.account
message_transaction_account(n) == n.account

\* The nodes blocks are built from: a message node, a tick-tock node at the
\* same logical time whose transaction hash is unavailable, and a later message
\* node sharing transaction and account with the first.
NodePool ==
    { MsgNode(1, "h1", "0:S", "m1"),
      TickTockNode(1, None, "0:N"),
      MsgNode(2, "h1", "0:S", "m3") }

\* The nodes a block may name as its initiating node: one of the pool (possibly
\* among the block's own nodes), a message node outside every block, and a
\* tick-tock node outside every block whose transaction hash is unavailable.
InitiatingPool ==
    { MsgNode(1, "h1", "0:S", "m1"),
      MsgNode(0, "h0", "0:P", "m0"),
      TickTockNode(0, None, "0:P") }

RECURSIVE SeqsUpTo(_, _)
SeqsUpTo(S, n) ==
    IF n = 0 THEN {<<>>}
    ELSE LET shorter == SeqsUpTo(S, n - 1)
         IN  shorter \cup {Append(s, x) : s \in {t \in shorter : Len(t) = n - 1}, x \in S}

Elems(s) == {s[i] : i \in DOMAIN s}

\* The event-node collections of the sampled blocks: a block's nodes are
\* distinct nodes of the trace, in any order, at most MaxNodes of them.
NodeSeqs ==
    { s \in SeqsUpTo(NodePool, MaxNodes) : \A i, j \in DOMAIN s : i # j => s[i] # s[j] }

-----------------------------------------------------------------------------
(* Ordering of list(set(...)).  The iteration order of a set depends on the *)
(* hashes of its elements, which are fixed for the life of an interpreter   *)
(* process only: the hash of a str by the process's hash seed, the hash of  *)
(* None by the address it is loaded at.  Any order of the elements can come *)
(* out, each set of a call is ordered on its own, and the same set is       *)
(* ordered the same way again inside the same interpreter process; two      *)
(* processes can differ even when started with the same PYTHONHASHSEED.     *)

\* The interpreter processes told apart: two calls in one of them order alike.
Interpreters == {0, 1}

\* list(set(xs)): the lists it can give, every order of the elements of S.
RECURSIVE ListOfSet(_)
ListOfSet(S) ==
    IF S = {} THEN {<<>>}
    ELSE UNION { { <<x>> \o l : l \in ListOfSet(S \ {x}) } : x \in S }

-----------------------------------------------------------------------------
(* _calc_action_id                                                         *)

\* A min that keeps the last node of least key instead of the first.
RECURSIVE MinFrom_LastMinimum(_, _, _)
MinFrom_LastMinimum(nodes, i, best) ==
    IF i > Len(nodes) THEN best
    ELSE MinFrom_LastMinimum(nodes, i + 1,
                             IF get_lt(nodes[i]) <= get_lt(best) THEN nodes[i] ELSE best)

\* min(nodes, key=lambda n: n.get_lt()): the first node of least key.
RECURSIVE MinFrom(_, _, _)
MinFrom(nodes, i, best) ==
    IF i > Len(nodes) THEN best
    ELSE MinFrom(nodes, i + 1, IF get_lt(nodes[i]) < get_lt(best) THEN nodes[i] ELSE best)

PyMin(nodes) == MinFrom(nodes, 2, nodes[1])

\* base64(sha256(key)): an injective tagging of the key.
Sha256B64(key) == "sha256:" \o key

ActionKey(root) ==
    IF HasMessage(root) THEN root.msg_hash
    ELSE (IF get_tx_hash(root) # None THEN get_tx_hash(root) ELSE "")

\* Defined for a block with at least one event node (min() of an empty list
\* raises ValueError).
_calc_action_id(b) ==
    Sha256B64(ActionKey(PyMin(b.event_nodes)) \o b.btype)

-----------------------------------------------------------------------------
(* The Action record and _base_block_to_action.                            *)

PayloadAttrs ==
    { "ton_transfer_data", "jetton_transfer_data", "nft_transfer_data",
      "nft_discovery_data", "nft_mint_data", "jetton_swap_data",
      "dex_deposit_liquidity_data", "dex_withdraw_liquidity_data",
      "jvault_stake_data", "jvault_claim_data", "multisig_create_order_data",
      "multisig_approve_data", "vesting_send_message_data",
      "vesting_add_whitelist_data", "change_dns_record_data", "staking_data" }

\* Action(trace_id=..., ..., success=...): every other attribute is unassigned.
NewAction(tid, type, id, hashes, lt0, lt1, ut0, ut1, success) ==
    [ trace_id |-> tid, type |-> type, action_id |-> id,
      tx_hashes |-> hashes, start_lt |-> lt0, end_lt |-> lt1,
      start_utime |-> ut0, end_utime |-> ut1, success |-> success,
      accounts |-> <<>>, extended_tx_hashes |-> <<>>,
      source |-> None, source_secondary |-> None,
      destination |-> None, destination_secondary |-> None,
      asset |-> None, asset2 |-> None, asset_secondary |-> None,
      amount |-> None, value |-> None, opcode |-> None,
      ton_transfer_data |-> Unset, jetton_transfer_data |-> Unset,
      nft_transfer_data |-> Unset, nft_discovery_data |-> Unset,
      nft_mint_data |-> Unset, jetton_swap_data |-> Unset,
      dex_deposit_liquidity_data |-> Unset, dex_withdraw_liquidity_data |-> Unset,
      jvault_stake_data |-> Unset, jvault_claim_data |-> Unset,
      multisig_create_order_data |-> Unset, multisig_approve_data |-> Unset,
      vesting_send_message_data |-> Unset, vesting_add_whitelist_data |-> Unset,
      change_dns_record_data |-> Unset, staking_data |-> Unset ]

\* tx_hashes = list(set(n.get_tx_hash() for n in block.event_nodes))
BaseTxHashes(b) ==
    ListOfSet({get_tx_hash(n) : n \in Elems(b.event_nodes)})

\* accounts = []; for n in block.event_nodes: accounts.append(...)
BaseAccounts(b) ==
    [i \in DOMAIN b.event_nodes |->
        IF b.event_nodes[i].is_tick_tock
        THEN tick_tock_account(b.event_nodes[i])
        ELSE message_transaction_account(b.event_nodes[i])]

\* success=not block.failed
BaseSuccess(b) == ~b.failed

\* The Actions the base converter can return, one for each order of tx_hashes.
\* Defined for a block with at least one event node.
_base_block_to_action(b, trace_id) ==
    { [ NewAction(trace_id, b.btype, _calc_action_id(b), tx_hashes,
                  b.min_lt, b.max_lt, b.min_utime, b.max_utime, BaseSuccess(b))
        EXCEPT !.accounts = BaseAccounts(b) ] : tx_hashes \in BaseTxHashes(b) }

\* _calc_action_id raises ValueError on an empty event-node collection.
BaseRaises(b) == Len(b.event_nodes) = 0

-----------------------------------------------------------------------------
(* Results of a normalizer: it returns having updated the Action, or an    *)
(* exception escapes; `out` is what it wrote (stdout) before that.         *)

Returned(a) == [raised |-> FALSE, exc |-> None, action |-> <<a>>, out |-> <<>>]

Raises(exc, out) == [raised |-> TRUE, exc |-> exc, action |-> <<>>, out |-> out]

\* str.replace("\u0000", "") on a string given as its sequence of characters.
StripNul(chars) == SelectSeq(chars, LAMBDA c : c # "NUL")

\* base64.b64encode(bytes).decode("utf-8")
B64(bytes) == [base64_of |-> bytes]

\* bytes.hex()
Hex(bytes) == "hex:" \o bytes

-----------------------------------------------------------------------------
(* Variant normalizers.  Each takes the block and the in-progress Action.  *)

_fill_call_contract_action(b, a) ==
    LET exc == FirstFault(Attr(b.data.value) \o HasKey(b.data.source)
                          \o HasKey(b.data.destination))
    IN  IF exc # NoFault THEN Raises(exc, <<>>)
    ELSE Returned([a EXCEPT
            !.opcode = b.opcode,
            !.value = value(b.data.value),
            !.source = IF b.data.source # None THEN as_str(b.data.source) ELSE None,
            !.destination =
                IF b.data.destination # None THEN as_str(b.data.destination) ELSE None])

\* print("Something very wrong", block.event_nodes[0].message.trace_id)
SomethingVeryWrong(b) ==
    IF HasMessage(b.event_nodes[1])
    THEN <<[level |-> "stdout", event |-> "Something very wrong", args |-> <<>>]>>
    ELSE <<>>

_fill_ton_transfer_action(b, a) ==
    LET before == FirstFault(Attr(b.data.source) \o HasKey(b.data.destination))
        after == FirstFault(HasKey(b.data.comment) \o HasKey(b.data.encrypted))
    IN  IF before # NoFault THEN Raises(before, <<>>)
    ELSE IF IsNone(b.data.destination)
         THEN Raises("AttributeError", SomethingVeryWrong(b))
    ELSE IF after # NoFault THEN Raises(after, <<>>)
    ELSE Returned([a EXCEPT
            !.value = b.value,
            !.source = as_str(b.data.source),
            !.destination = as_str(b.data.destination),
            !.ton_transfer_data =
                << [ content |-> IF b.data.comment # <<>>
                                 THEN <<StripNul(b.data.comment[1])>> ELSE <<>>,
                     encrypted |-> b.data.encrypted ] >>])

JettonTransferComment(d) ==
    IF d.comment # <<>>
    THEN (IF Truthy(d.encrypted_comment) THEN <<B64(d.comment[1])>>
          ELSE <<StripNul(d.comment[1])>>)
    ELSE <<>>

_fill_jetton_transfer_action(b, a) ==
    LET exc == FirstFault(
            Attr(b.data.sender) \o Attr(b.data.sender_wallet) \o Attr(b.data.receiver)
            \o NotNone(b.data.receiver_wallet)
            \o Attr(b.data.amount) \o HasKey(b.data.asset)
            \o (IF KeyAbsent(b.data.asset) \/ IsNone(b.data.asset) THEN <<>>
                ELSE IF is_ton(b.data.asset) THEN <<>>
                ELSE JettonAddressNotNone(b.data.asset))
            \o HasKey(b.data.comment)
            \o (IF KeyAbsent(b.data.comment) \/ b.data.comment = <<>> THEN <<>>
                ELSE HasKey(b.data.encrypted_comment))
            \o HasKey(b.data.query_id) \o HasKey(b.data.response_address)
            \o Attr(b.data.forward_amount) \o HasKey(b.data.custom_payload)
            \o HasKey(b.data.forward_payload) \o HasKey(b.data.encrypted_comment))
    IN  IF exc # NoFault THEN Raises(exc, <<>>)
    ELSE Returned([a EXCEPT
            !.source = as_str(b.data.sender),
            !.source_secondary = as_str(b.data.sender_wallet),
            !.destination = as_str(b.data.receiver),
            !.destination_secondary =
                IF b.data.receiver_wallet # Missing
                THEN as_str(b.data.receiver_wallet) ELSE None,
            !.amount = value(b.data.amount),
            !.asset = IF b.data.asset = None \/ is_ton(b.data.asset) THEN None
                      ELSE as_str(jetton_address(b.data.asset)),
            !.jetton_transfer_data =
                << [ query_id |-> b.data.query_id,
                     response_destination |->
                         IF b.data.response_address # None
                         THEN as_str(b.data.response_address) ELSE None,
                     forward_amount |-> value(b.data.forward_amount),
                     custom_payload |-> b.data.custom_payload,
                     forward_payload |-> b.data.forward_payload,
                     comment |-> JettonTransferComment(b.data),
                     is_encrypted_comment |-> b.data.encrypted_comment ] >>])

_fill_nft_transfer_action(b, a) ==
    LET exc == FirstFault(
            Attr(b.data.new_owner) \o Attr(b.data.nft_address)
            \o HasKey(b.data.nft_collection)
            \o HasKey(b.data.query_id) \o HasKey(b.data.is_purchase)
            \o (IF ~KeyAbsent(b.data.price) /\ Truthy(b.data.is_purchase)
                THEN NotNone(b.data.price) ELSE <<>>)
            \o HasKey(b.data.nft_index) \o HasKey(b.data.forward_amount)
            \o HasKey(b.data.custom_payload) \o HasKey(b.data.forward_payload)
            \o HasKey(b.data.response_destination))
    IN  IF exc # NoFault THEN Raises(exc, <<>>)
    ELSE Returned([a EXCEPT
            !.source = IF b.data.prev_owner # Missing /\ b.data.prev_owner # None
                       THEN as_str(b.data.prev_owner) ELSE @,
            !.destination = as_str(b.data.new_owner),
            !.asset_secondary = as_str(b.data.nft_address),
            !.asset = IF b.data.nft_collection # None
                      THEN as_str(b.data.nft_collection) ELSE @,
            !.nft_transfer_data =
                << [ query_id |-> b.data.query_id,
                     is_purchase |-> b.data.is_purchase,
                     price |-> IF ~KeyAbsent(b.data.price) /\ Truthy(b.data.is_purchase)
                               THEN value(b.data.price) ELSE None,
                     nft_item_index |-> b.data.nft_index,
                     forward_amount |-> IF b.data.forward_amount # None
                                        THEN value(b.data.forward_amount) ELSE None,
                     custom_payload |-> b.data.custom_payload,
                     forward_payload |-> b.data.forward_payload,
                     response_destination |->
                         IF b.data.response_destination # None
                         THEN as_str(b.data.response_destination) ELSE None ] >>])

_fill_nft_discovery_action(b, a) ==
    IF ~(Deref(b.data.sender) /\ Deref(b.data.nft) /\ Deref(b.data.result_collection))
    THEN Raises("AttributeError", <<>>)
    ELSE Returned([a EXCEPT
            !.source = as_str(b.data.sender),
            !.destination = as_str(b.data.nft),
            !.nft_discovery_data =
                << [ query_id |-> b.data.query_id,
                     collection_address |-> as_str(b.data.result_collection),
                     nft_item_index |-> b.data.result_index ] >>])

_fill_nft_mint_action(b, a) ==
    LET exc == FirstFault(HasKey(b.data.source) \o Attr(b.data.address)
                          \o HasKey(b.data.opcode) \o HasKey(b.data.collection)
                          \o HasKey(b.data.index))
    IN  IF exc # NoFault THEN Raises(exc, <<>>)
    ELSE Returned([a EXCEPT
            !.source = IF b.data.source # None THEN as_str(b.data.source) ELSE @,
            !.destination = as_str(b.data.address),
            !.asset_secondary = as_str(b.data.address),
            !.opcode = b.data.opcode,
            !.asset = IF b.data.collection # None THEN as_str(b.data.collection) ELSE @,
            !.nft_mint_data = << [nft_item_index |-> b.data.index] >>])

\* One leg of a swap as _fill_jetton_swap_action renders it.
SwapTransfer(t) ==
    [ amount |-> value(t.amount),
      source |-> _addr(t.source),
      source_jetton_wallet |-> _addr(t.source_jetton_wallet),
      destination |-> _addr(t.destination),
      destination_jetton_wallet |-> _addr(t.destination_jetton_wallet),
      asset |-> _addr(t.asset) ]

\* action.asset after lines 275-278
SwapAsset(d) ==
    IF d.dex = "stonfi_v2" THEN _addr(d.source_asset)
    ELSE SwapTransfer(d.dex_incoming_transfer).asset

\* action.asset2 after lines 276-293
SwapAsset2(d) ==
    IF d.destination_asset # Missing /\ d.destination_asset # None
    THEN _addr(d.destination_asset)
    ELSE IF d.dex = "stonfi_v2" THEN _addr(d.destination_asset)
    ELSE SwapTransfer(d.dex_outgoing_transfer).asset

\* The reads of one leg of a swap, lines 252-261.
SwapTransferChecks(t) ==
    HasKey(t) \o
    (IF KeyAbsent(t) THEN <<>>
     ELSE Attr(t.amount) \o HasKey(t.source) \o HasKey(t.source_jetton_wallet)
          \o HasKey(t.destination) \o HasKey(t.destination_jetton_wallet)
          \o HasKey(t.asset))

_fill_jetton_swap_action(b, a) ==
    LET exc == FirstFault(
            SwapTransferChecks(b.data.dex_incoming_transfer)
            \o SwapTransferChecks(b.data.dex_outgoing_transfer)
            \o HasKey(b.data.dex)
            \o (IF b.data.dex = "stonfi_v2"
                THEN HasKey(b.data.source_asset) \o HasKey(b.data.destination_asset)
                ELSE <<>>)
            \o HasKey(b.data.sender))
    IN  IF exc # NoFault THEN Raises(exc, <<>>)
    ELSE Returned([a EXCEPT
            !.asset = SwapAsset(b.data),
            !.asset2 = SwapAsset2(b.data),
            !.source = SwapTransfer(b.data.dex_incoming_transfer).source,
            !.source_secondary =
                SwapTransfer(b.data.dex_incoming_transfer).source_jetton_wallet,
            !.destination = SwapTransfer(b.data.dex_outgoing_transfer).destination,
            !.destination_secondary =
                IF b.data.destination_wallet # Missing /\ b.data.destination_wallet # None
                THEN _addr(b.data.destination_wallet)
                ELSE SwapTransfer(b.data.dex_outgoing_transfer).destination_jetton_wallet,
            !.jetton_swap_data =
                << [ dex |-> b.data.dex,
                     sender |-> _addr(b.data.sender),
                     dex_incoming_transfer |-> SwapTransfer(b.data.dex_incoming_transfer),
                     dex_outgoing_transfer |-> SwapTransfer(b.data.dex_outgoing_transfer) ] >>])

OptValue(amount) == IF amount # None THEN value(amount) ELSE None

_fill_dex_deposit_liquidity(b, a) ==
    LET exc == FirstFault(
            HasKey(b.data.sender) \o HasKey(b.data.pool) \o HasKey(b.data.dex)
            \o HasKey(b.data.amount_1) \o HasKey(b.data.amount_2)
            \o HasKey(b.data.asset_1) \o HasKey(b.data.asset_2)
            \o HasKey(b.data.sender_wallet_1) \o HasKey(b.data.sender_wallet_2)
            \o HasKey(b.data.lp_tokens_minted))
    IN  IF exc # NoFault THEN Raises(exc, <<>>)
    ELSE Returned([a EXCEPT
            !.source = _addr(b.data.sender),
            !.destination = _addr(b.data.pool),
            !.dex_deposit_liquidity_data =
                << [ dex |-> b.data.dex,
                     amount1 |-> OptValue(b.data.amount_1),
                     amount2 |-> OptValue(b.data.amount_2),
                     asset1 |-> _addr(b.data.asset_1),
                     asset2 |-> _addr(b.data.asset_2),
                     user_jetton_wallet_1 |-> _addr(b.data.sender_wallet_1),
                     user_jetton_wallet_2 |-> _addr(b.data.sender_wallet_2),
                     lp_tokens_minted |-> OptValue(b.data.lp_tokens_minted) ] >>])

_fill_dex_withdraw_liquidity(b, a) ==
    LET exc == FirstFault(
            HasKey(b.data.sender) \o HasKey(b.data.sender_wallet) \o HasKey(b.data.pool)
            \o HasKey(b.data.asset) \o HasKey(b.data.dex)
            \o HasKey(b.data.amount1_out) \o HasKey(b.data.amount2_out)
            \o HasKey(b.data.asset1_out) \o HasKey(b.data.asset2_out)
            \o HasKey(b.data.wallet1) \o HasKey(b.data.wallet2)
            \o HasKey(b.data.dex_jetton_wallet_1) \o HasKey(b.data.dex_wallet_1)
            \o HasKey(b.data.dex_wallet_2) \o HasKey(b.data.dex_jetton_wallet_2)
            \o HasKey(b.data.is_refund) \o HasKey(b.data.lp_tokens_burnt))
    IN  IF exc # NoFault THEN Raises(exc, <<>>)
    ELSE Returned([a EXCEPT
        !.source = _addr(b.data.sender),
        !.source_secondary = _addr(b.data.sender_wallet),
        !.destination = _addr(b.data.pool),
        !.asset = _addr(b.data.asset),
        !.dex_withdraw_liquidity_data =
            << [ dex |-> b.data.dex,
                 amount_1 |-> OptValue(b.data.amount1_out),
                 amount_2 |-> OptValue(b.data.amount2_out),
                 asset_out_1 |-> _addr(b.data.asset1_out),
                 asset_out_2 |-> _addr(b.data.asset2_out),
                 user_jetton_wallet_1 |-> _addr(b.data.wallet1),
                 user_jetton_wallet_2 |-> _addr(b.data.wallet2),
                 dex_jetton_wallet_1 |-> _addr(b.data.dex_jetton_wallet_1),
                 dex_wallet_1 |-> _addr(b.data.dex_wallet_1),
                 dex_wallet_2 |-> _addr(b.data.dex_wallet_2),
                 dex_jetton_wallet_2 |-> _addr(b.data.dex_jetton_wallet_2),
                 is_refund |-> b.data.is_refund,
                 lp_tokens_burnt |-> OptValue(b.data.lp_tokens_burnt) ] >>])

_fill_jvault_stake(b, a) ==
    Returned([a EXCEPT
        !.source = _addr(b.data.sender),
        !.source_secondary = _addr(b.data.stake_wallet),
        !.destination = _addr(b.data.staking_pool),
        !.amount = b.data.staked_amount,
        !.jvault_stake_data =
            << [ period |-> b.data.period,
                 minted_stake_jettons |-> b.data.minted_stake_jettons ] >>])

\* An unstake normalizer that also fills the stake payload.
_fill_jvault_unstake_WithStakeData(b, a) ==
    Returned([a EXCEPT
        !.source = _addr(b.data.sender),
        !.source_secondary = _addr(b.data.stake_wallet),
        !.destination = _addr(b.data.staking_pool),
        !.amount = b.data.unstaked_amount,
        !.jvault_stake_data = << [period |-> None, minted_stake_jettons |-> None] >>])

_fill_jvault_unstake(b, a) ==
    Returned([a EXCEPT
        !.source = _addr(b.data.sender),
        !.source_secondary = _addr(b.data.stake_wallet),
        !.destination = _addr(b.data.staking_pool),
        !.amount = b.data.unstaked_amount])

_fill_jvault_claim(b, a) ==
    Returned([a EXCEPT
        !.source = _addr(b.data.sender),
        !.source_secondary = _addr(b.data.stake_wallet),
        !.destination = _addr(b.data.staking_pool),
        !.jvault_claim_data =
            << [ claimed_jettons |->
                     [i \in DOMAIN b.data.claimed_jettons |-> _addr(b.data.claimed_jettons[i])],
                 claimed_amounts |-> b.data.claimed_amounts ] >>])

_fill_multisig_create_order(b, a) ==
    Returned([a EXCEPT
        !.source = _addr(b.data.created_by),
        !.destination = _addr(b.data.multisig),
        !.destination_secondary = _addr(b.data.order_contract_address),
        !.multisig_create_order_data =
            << [ query_id |-> b.data.query_id,
                 order_seqno |-> b.data.order_seqno,
                 is_created_by_signer |-> b.data.is_created_by_signer,
                 is_signed_by_creator |-> b.data.creator_approved,
                 creator_index |-> b.data.creator_index,
                 expiration_date |-> b.data.expiration_date,
                 order_boc |-> b.data.order_boc_str ] >>])

\* An approve normalizer that leaves the base converter's success in place.
_fill_multisig_approve_KeepsSuccess(b, a) ==
    Returned([a EXCEPT
        !.source = _addr(b.data.signer),
        !.destination = _addr(b.data.order),
        !.multisig_approve_data =
            << [ signer_index |-> b.data.signer_index,
                 exit_code |-> b.data.exit_code ] >>])

_fill_multisig_approve(b, a) ==
    Returned([a EXCEPT
        !.source = _addr(b.data.signer),
        !.destination = _addr(b.data.order),
        !.success = b.data.success,
        !.multisig_approve_data =
            << [ signer_index |-> b.data.signer_index,
                 exit_code |-> b.data.exit_code ] >>])

_fill_vesting_send_message(b, a) ==
    IF ~Deref(b.data.message_value) THEN Raises("AttributeError", <<>>)
    ELSE Returned([a EXCEPT
            !.source = _addr(b.data.sender),
            !.destination = _addr(b.data.vesting),
            !.destination_secondary = _addr(b.data.message_destination),
            !.amount = value(b.data.message_value),
            !.vesting_send_message_data =
                << [ query_id |-> b.data.query_id,
                     message_boc |-> b.data.message_boc_str ] >>])

_fill_vesting_add_whitelist(b, a) ==
    Returned([a EXCEPT
        !.source = _addr(b.data.adder),
        !.destination = _addr(b.data.vesting),
        !.vesting_add_whitelist_data =
            << [ query_id |-> b.data.query_id,
                 accounts_added |->
                     [i \in DOMAIN b.data.accounts_added |-> _addr(b.data.accounts_added[i])] ] >>])

_fill_jetton_burn_action(b, a) ==
    LET exc == FirstFault(Attr(b.data.owner) \o Attr(b.data.jetton_wallet)
                          \o Attr(b.data.asset) \o JettonAddressNotNone(b.data.asset)
                          \o Attr(b.data.amount))
    IN  IF exc # NoFault THEN Raises(exc, <<>>)
    ELSE Returned([a EXCEPT
            !.source = as_str(b.data.owner),
            !.source_secondary = as_str(b.data.jetton_wallet),
            !.asset = as_str(jetton_address(b.data.asset)),
            !.amount = value(b.data.amount)])

\* The record data of a DNS change, by the record's value schema.
DnsRecordData(d) ==
    LET schema == d.value.schema
    IN  [ value_schema |-> schema,
          flags |-> IF schema \in {"DNSAdnlAddress", "DNSSmcAddress"}
                    THEN d.value.flags ELSE None,
          address |-> IF schema \in {"DNSNextResolver", "DNSSmcAddress"}
                      THEN as_str(d.value.address)
                      ELSE IF schema = "DNSAdnlAddress" THEN Hex(d.value.address)
                      ELSE None,
          key |-> Hex(d.key),
          dns_text |-> IF schema = "DNSText" THEN d.value.dns_text ELSE Missing ]

\* The reads of the record of a DNS change, lines 449-462.
DnsRecordChecks(d) ==
    LET v == d.value
        schema == v.schema
    IN  HasKey(schema) \o Attr(d.key)
        \o (IF schema \in {"DNSNextResolver", "DNSSmcAddress"} THEN Attr(v.address)
            ELSE IF schema = "DNSAdnlAddress" THEN Attr(v.address) \o HasKey(v.flags)
            ELSE <<>>)
        \o (IF schema = "DNSSmcAddress" THEN HasKey(v.flags) ELSE <<>>)
        \o (IF schema = "DNSText" THEN HasKey(v.dns_text) ELSE <<>>)

_fill_change_dns_record_action(b, a) ==
    LET exc == FirstFault(
            HasKey(b.data.source) \o Attr(b.data.destination) \o HasKey(b.data.value)
            \o <<Check(~IsNone(b.data.value), "TypeError")>>
            \o (IF KeyAbsent(b.data.value) \/ IsNone(b.data.value) THEN <<>>
                ELSE DnsRecordChecks(b.data)))
    IN  IF exc # NoFault THEN Raises(exc, <<>>)
    ELSE Returned([a EXCEPT
            !.source = IF b.data.source # None THEN as_str(b.data.source) ELSE None,
            !.destination = as_str(b.data.destination),
            !.change_dns_record_data = <<DnsRecordData(b.data)>>])

_fill_delete_dns_record_action(b, a) ==
    LET exc == FirstFault(HasKey(b.data.source) \o Attr(b.data.destination)
                          \o Attr(b.data.key))
    IN  IF exc # NoFault THEN Raises(exc, <<>>)
    ELSE Returned([a EXCEPT
            !.source = IF b.data.source # None THEN as_str(b.data.source) ELSE None,
            !.destination = as_str(b.data.destination),
            !.change_dns_record_data =
                << [ value_schema |-> None, flags |-> None, address |-> None,
                     key |-> Hex(b.data.key) ] >>])

_fill_dns_renew_action(b, a) ==
    LET exc == FirstFault(HasKey(b.data.source) \o HasKey(b.data.destination))
    IN  IF exc # NoFault THEN Raises(exc, <<>>)
    ELSE Returned([a EXCEPT
            !.source = _addr(b.data.source),
            !.destination = _addr(b.data.destination)])

_fill_tonstakers_deposit_action(b, a) ==
    IF ~Deref(b.data.value) THEN Raises("AttributeError", <<>>)
    ELSE Returned([a EXCEPT
            !.type = "stake_deposit",
            !.source = _addr(b.data.source),
            !.destination = _addr(b.data.pool),
            !.amount = value(b.data.value),
            !.staking_data = << [provider |-> "tonstakers"] >>])

_fill_tonstakers_withdraw_request_action(b, a) ==
    IF ~Deref(b.data.tokens_burnt) THEN Raises("AttributeError", <<>>)
    ELSE Returned([a EXCEPT
            !.source = _addr(b.data.source),
            !.source_secondary = _addr(b.data.tsTON_wallet),
            !.destination = _addr(b.data.pool),
            !.amount = value(b.data.tokens_burnt),
            !.type = "stake_withdrawal_request",
            !.staking_data =
                << [provider |-> "tonstakers", ts_nft |-> _addr(b.data.minted_nft)] >>])

_fill_tonstakers_withdraw_action(b, a) ==
    IF ~Deref(b.data.amount) THEN Raises("AttributeError", <<>>)
    ELSE Returned([a EXCEPT
            !.source = _addr(b.data.stake_holder),
            !.destination = _addr(b.data.pool),
            !.amount = value(b.data.amount),
            !.type = "stake_withdrawal",
            !.staking_data =
                << [provider |-> "tonstakers", ts_nft |-> _addr(b.data.burnt_nft)] >>])

_fill_subscribe_action(b, a) ==
    LET exc == FirstFault(Attr(b.data.subscriber) \o HasKey(b.data.beneficiary)
                          \o Attr(b.data.subscription) \o Attr(b.data.amount))
    IN  IF exc # NoFault THEN Raises(exc, <<>>)
    ELSE Returned([a EXCEPT
            !.source = as_str(b.data.subscriber),
            !.destination =
                IF b.data.beneficiary # None THEN as_str(b.data.beneficiary) ELSE None,
            !.destination_secondary = as_str(b.data.subscription),
            !.amount = value(b.data.amount)])

_fill_unsubscribe_action(b, a) ==
    LET exc == FirstFault(Attr(b.data.subscriber) \o HasKey(b.data.beneficiary)
                          \o Attr(b.data.subscription))
    IN  IF exc # NoFault THEN Raises(exc, <<>>)
    ELSE Returned([a EXCEPT
            !.source = as_str(b.data.subscriber),
            !.destination =
                IF b.data.beneficiary # None THEN as_str(b.data.beneficiary) ELSE None,
            !.destination_secondary = as_str(b.data.subscription)])

_fill_election_action(b, a) ==
    LET exc == FirstFault(Attr(b.data.stake_holder) \o NotNone(b.data.amount))
    IN  IF exc # NoFault THEN Raises(exc, <<>>)
    ELSE Returned([a EXCEPT
            !.source = as_str(b.data.stake_holder),
            !.amount = IF b.data.amount # Missing THEN value(b.data.amount) ELSE None])

_fill_auction_bid_action(b, a) ==
    LET exc == FirstFault(Attr(b.data.bidder) \o Attr(b.data.auction)
                          \o Attr(b.data.nft_address) \o HasKey(b.data.nft_collection)
                          \o HasKey(b.data.nft_item_index) \o Attr(b.data.amount))
    IN  IF exc # NoFault THEN Raises(exc, <<>>)
    ELSE Returned([a EXCEPT
            !.source = as_str(b.data.bidder),
            !.destination = as_str(b.data.auction),
            !.asset_secondary = as_str(b.data.nft_address),
            !.asset = _addr(b.data.nft_collection),
            !.nft_transfer_data = << [nft_item_index |-> b.data.nft_item_index] >>,
            !.value = value(b.data.amount)])

\* The payload both DeDust deposit normalizers build, up to lp_tokens_minted.
DedustLiquidityData(d, lp_tokens_minted) ==
    [ dex |-> d.dex,
      asset1 |-> _addr(jetton_address(d.asset_1)),
      amount1 |-> value(d.amount_1),
      asset2 |-> _addr(jetton_address(d.asset_2)),
      amount2 |-> value(d.amount_2),
      user_jetton_wallet_1 |-> _addr(d.user_jetton_wallet_1),
      user_jetton_wallet_2 |-> _addr(d.user_jetton_wallet_2),
      lp_tokens_minted |-> lp_tokens_minted ]

\* The reads of the payload both DeDust deposit normalizers build.
DedustLiquidityChecks(d) ==
    HasKey(d.dex) \o Attr(d.asset_1) \o Attr(d.amount_1) \o Attr(d.asset_2)
    \o Attr(d.amount_2) \o HasKey(d.user_jetton_wallet_1)
    \o HasKey(d.user_jetton_wallet_2)

_fill_dedust_deposit_liquidity_action(b, a) ==
    LET exc == FirstFault(HasKey(b.data.sender) \o HasKey(b.data.pool_address)
                          \o HasKey(b.data.deposit_contract)
                          \o DedustLiquidityChecks(b.data)
                          \o Attr(b.data.lp_tokens_minted))
    IN  IF exc # NoFault THEN Raises(exc, <<>>)
    ELSE Returned([a EXCEPT
            !.type = "dex_deposit_liquidity",
            !.source = _addr(b.data.sender),
            !.destination = _addr(b.data.pool_address),
            !.destination_secondary = _addr(b.data.deposit_contract),
            !.dex_deposit_liquidity_data =
                <<DedustLiquidityData(b.data, value(b.data.lp_tokens_minted))>>])

_fill_dedust_deposit_liquidity_partial_action(b, a) ==
    LET exc == FirstFault(HasKey(b.data.sender) \o HasKey(b.data.deposit_contract)
                          \o DedustLiquidityChecks(b.data))
    IN  IF exc # NoFault THEN Raises(exc, <<>>)
    ELSE Returned([a EXCEPT
            !.type = "dex_deposit_liquidity",
            !.source = _addr(b.data.sender),
            !.destination_secondary = _addr(b.data.deposit_contract),
            !.dex_deposit_liquidity_data = <<DedustLiquidityData(b.data, None)>>])

_fill_jetton_mint_action(b, a) ==
    LET exc == FirstFault(HasKey(b.data.to) \o HasKey(b.data.to_jetton_wallet)
                          \o Attr(b.data.asset) \o HasKey(b.data.amount)
                          \o HasKey(b.data.ton_amount))
    IN  IF exc # NoFault THEN Raises(exc, <<>>)
    ELSE Returned([a EXCEPT
            !.destination = _addr(b.data.to),
            !.destination_secondary = _addr(b.data.to_jetton_wallet),
            !.asset = _addr(jetton_address(b.data.asset)),
            !.amount = IF b.data.amount # None THEN value(b.data.amount) ELSE None,
            !.value = IF b.data.ton_amount # None THEN value(b.data.ton_amount) ELSE None])

_fill_nominator_pool_deposit_action(b, a) ==
    IF ~(Deref(b.data.source) /\ Deref(b.data.pool) /\ Deref(b.data.value))
    THEN Raises("AttributeError", <<>>)
    ELSE Returned([a EXCEPT
            !.type = "stake_deposit",
            !.source = as_str(b.data.source),
            !.destination = as_str(b.data.pool),
            !.amount = value(b.data.value),
            !.staking_data = << [provider |-> "nominator"] >>])

\* A test by truthiness (`if not payout`), which takes a zero payout for none.
WithdrawRequestType_ZeroIsRequest(d, type) ==
    IF d.payout_amount \in {None, "Amount(0)"}
    THEN "stake_withdrawal_request" ELSE "stake_withdrawal"

\* action.type after lines 619-622
WithdrawRequestType(d, type) ==
    IF d.payout_amount = None THEN "stake_withdrawal_request" ELSE "stake_withdrawal"

\* action.amount after lines 619-623
WithdrawRequestAmount(d, amount) ==
    IF d.payout_amount = None THEN amount ELSE value(d.payout_amount)

_fill_nominator_pool_withdraw_request_action(b, a) ==
    IF ~(Deref(b.data.source) /\ Deref(b.data.pool))
    THEN Raises("AttributeError", <<>>)
    ELSE Returned([a EXCEPT
            !.type = WithdrawRequestType(b.data, @),
            !.amount = WithdrawRequestAmount(b.data, @),
            !.staking_data = << [provider |-> "nominator"] >>,
            !.source = as_str(b.data.source),
            !.destination = as_str(b.data.pool)])

-----------------------------------------------------------------------------
(* The dispatcher: the match statement of block_to_action.                 *)

KnownClasses ==
    { "CallContractBlock", "ContractDeployBlock", "TonTransferBlock",
      "NominatorPoolDepositBlock", "NominatorPoolWithdrawRequestBlock",
      "DedustDepositLiquidityBlock", "DedustDepositLiquidityPartialBlock",
      "JettonTransferBlock", "NftTransferBlock", "NftDiscoveryBlock", "NftMintBlock",
      "JettonBurnBlock", "JettonMintBlock", "JettonSwapBlock",
      "DnsChangeRecordBlock", "DnsDeleteRecordBlock", "DnsRenewBlock",
      "TONStakersDepositBlock", "TONStakersWithdrawRequestBlock",
      "TONStakersWithdrawBlock", "SubscribeBlock", "DexDepositLiquidityBlock",
      "DexWithdrawLiquidityBlock", "JVaultStakeBlock", "JVaultUnstakeBlock",
      "JVaultClaimBlock", "MultisigCreateOrderBlock", "MultisigApproveBlock",
      "VestingSendMessageBlock", "VestingAddWhiteListBlock", "UnsubscribeBlock",
      "ElectionDepositStakeBlock", "ElectionRecoverStakeBlock", "AuctionBidBlock" }

\* A block of no imported class: the plain Block.
UnknownClasses == {"Block"}

Fallback == "_"

\* The cases of the match statement, in order.
MatchCases(cls) ==
    CASE cls = "CallContractBlock" -> "_fill_call_contract_action"
      [] cls = "ContractDeployBlock" -> "_fill_call_contract_action"
      [] cls = "TonTransferBlock" -> "_fill_ton_transfer_action"
      [] cls = "NominatorPoolDepositBlock" -> "_fill_nominator_pool_deposit_action"
      [] cls = "NominatorPoolWithdrawRequestBlock" ->
             "_fill_nominator_pool_withdraw_request_action"
      [] cls = "DedustDepositLiquidityBlock" -> "_fill_dedust_deposit_liquidity_action"
      [] cls = "DedustDepositLiquidityPartialBlock" ->
             "_fill_dedust_deposit_liquidity_partial_action"
      [] cls = "JettonTransferBlock" -> "_fill_jetton_transfer_action"
      [] cls = "NftTransferBlock" -> "_fill_nft_transfer_action"
      [] cls = "NftDiscoveryBlock" -> "_fill_nft_discovery_action"
      [] cls = "NftMintBlock" -> "_fill_nft_mint_action"
      [] cls = "JettonBurnBlock" -> "_fill_jetton_burn_action"
      [] cls = "JettonMintBlock" -> "_fill_jetton_mint_action"
      [] cls = "JettonSwapBlock" -> "_fill_jetton_swap_action"
      [] cls = "DnsChangeRecordBlock" -> "_fill_change_dns_record_action"
      [] cls = "DnsDeleteRecordBlock" -> "_fill_delete_dns_record_action"
      [] cls = "DnsRenewBlock" -> "_fill_dns_renew_action"
      [] cls = "TONStakersDepositBlock" -> "_fill_tonstakers_deposit_action"
      [] cls = "TONStakersWithdrawRequestBlock" ->
             "_fill_tonstakers_withdraw_request_action"
      [] cls = "TONStakersWithdrawBlock" -> "_fill_tonstakers_withdraw_action"
      [] cls = "SubscribeBlock" -> "_fill_subscribe_action"
      [] cls = "DexDepositLiquidityBlock" -> "_fill_dex_deposit_liquidity"
      [] cls = "DexWithdrawLiquidityBlock" -> "_fill_dex_withdraw_liquidity"
      [] cls = "JVaultStakeBlock" -> "_fill_jvault_stake"
      [] cls = "JVaultUnstakeBlock" -> "_fill_jvault_unstake"
      [] cls = "JVaultClaimBlock" -> "_fill_jvault_claim"
      [] cls = "MultisigCreateOrderBlock" -> "_fill_multisig_create_order"
      [] cls = "MultisigApproveBlock" -> "_fill_multisig_approve"
      [] cls = "VestingSendMessageBlock" -> "_fill_vesting_send_message"
      [] cls = "VestingAddWhiteListBlock" -> "_fill_vesting_add_whitelist"
      [] cls = "UnsubscribeBlock" -> "_fill_unsubscribe_action"
      [] cls = "ElectionDepositStakeBlock" -> "_fill_election_action"
      [] cls = "ElectionRecoverStakeBlock" -> "_fill_election_action"
      [] cls = "AuctionBidBlock" -> "_fill_auction_bid_action"
      [] OTHER -> Fallback

\* The case the match statement takes for a block of class cls.
Dispatcher(cls) == MatchCases(cls)

\* The call the selected case makes.
ApplyNormalizer(name, b, a) ==
    CASE name = "_fill_call_contract_action" -> _fill_call_contract_action(b, a)
      [] name = "_fill_ton_transfer_action" -> _fill_ton_transfer_action(b, a)
      [] name = "_fill_nominator_pool_deposit_action" ->
             _fill_nominator_pool_deposit_action(b, a)
      [] name = "_fill_nominator_pool_withdraw_request_action" ->
             _fill_nominator_pool_withdraw_request_action(b, a)
      [] name = "_fill_dedust_deposit_liquidity_action" ->
             _fill_dedust_deposit_liquidity_action(b, a)
      [] name = "_fill_dedust_deposit_liquidity_partial_action" ->
             _fill_dedust_deposit_liquidity_partial_action(b, a)
      [] name = "_fill_jetton_transfer_action" -> _fill_jetton_transfer_action(b, a)
      [] name = "_fill_nft_transfer_action" -> _fill_nft_transfer_action(b, a)
      [] name = "_fill_nft_discovery_action" -> _fill_nft_discovery_action(b, a)
      [] name = "_fill_nft_mint_action" -> _fill_nft_mint_action(b, a)
      [] name = "_fill_jetton_burn_action" -> _fill_jetton_burn_action(b, a)
      [] name = "_fill_jetton_mint_action" -> _fill_jetton_mint_action(b, a)
      [] name = "_fill_jetton_swap_action" -> _fill_jetton_swap_action(b, a)
      [] name = "_fill_change_dns_record_action" -> _fill_change_dns_record_action(b, a)
      [] name = "_fill_delete_dns_record_action" -> _fill_delete_dns_record_action(b, a)
      [] name = "_fill_dns_renew_action" -> _fill_dns_renew_action(b, a)
      [] name = "_fill_tonstakers_deposit_action" -> _fill_tonstakers_deposit_action(b, a)
      [] name = "_fill_tonstakers_withdraw_request_action" ->
             _fill_tonstakers_withdraw_request_action(b, a)
      [] name = "_fill_tonstakers_withdraw_action" -> _fill_tonstakers_withdraw_action(b, a)
      [] name = "_fill_subscribe_action" -> _fill_subscribe_action(b, a)
      [] name = "_fill_dex_deposit_liquidity" -> _fill_dex_deposit_liquidity(b, a)
      [] name = "_fill_dex_withdraw_liquidity" -> _fill_dex_withdraw_liquidity(b, a)
      [] name = "_fill_jvault_stake" -> _fill_jvault_stake(b, a)
      [] name = "_fill_jvault_unstake" -> _fill_jvault_unstake(b, a)
      [] name = "_fill_jvault_claim" -> _fill_jvault_claim(b, a)
      [] name = "_fill_multisig_create_order" -> _fill_multisig_create_order(b, a)
      [] name = "_fill_multisig_approve" -> _fill_multisig_approve(b, a)
      [] name = "_fill_vesting_send_message" -> _fill_vesting_send_message(b, a)
      [] name = "_fill_vesting_add_whitelist" -> _fill_vesting_add_whitelist(b, a)
      [] name = "_fill_unsubscribe_action" -> _fill_unsubscribe_action(b, a)
      [] name = "_fill_election_action" -> _fill_election_action(b, a)
      [] name = "_fill_auction_bid_action" -> _fill_auction_bid_action(b, a)

\* logger.warning(f"Unknown block type {block.btype} for trace {trace_id}")
UnknownTypeWarning(b, trace_id) ==
    [level |-> "WARNING", event |-> "Unknown block type", args |-> <<b.btype, trace_id>>]

-----------------------------------------------------------------------------
(* The assembler: lines 703-723 of block_to_action.                        *)

\* The appends of lines 704 and 706 only: the secondary fields are left out.
AccountsAfterFill_PrimaryOnly(a) ==
    a.accounts \o <<a.source, a.destination>>

\* action.accounts after the four appends of lines 704-707
AccountsAfterFill(a) ==
    a.accounts \o <<a.source, a.source_secondary, a.destination, a.destination_secondary>>

HasInitiating(b) == b.initiating_event_node # <<>>

Initiating(b) == b.initiating_event_node[1]

\* An extended set that starts empty instead of from action.tx_hashes.
ExtendedTxHashSet_StartsEmpty(a, b) ==
    IF HasInitiating(b)
    THEN {IF get_tx_hash(Initiating(b)) # None THEN get_tx_hash(Initiating(b)) ELSE ""}
    ELSE {}

\* extended_tx_hashes as a set, lines 710-712
ExtendedTxHashSet(a, b) ==
    Elems(a.tx_hashes) \cup
        (IF HasInitiating(b)
         THEN {IF get_tx_hash(Initiating(b)) # None THEN get_tx_hash(Initiating(b)) ELSE ""}
         ELSE {})

\* The branch without its tick-tock test.
AppendsInitiatingAccount_IgnoresTickTock(b) == HasInitiating(b)

\* Whether lines 713-719 run: the initiating node's account is appended.
AppendsInitiatingAccount(b) ==
    HasInitiating(b) /\ ~Initiating(b).is_tick_tock

\* `acc not in action.accounts`, line 715
AccountNotInAccounts(acc, accounts) == acc \notin Elems(accounts)

\* logging.info(f"Initiating transaction ({...}) account not in accounts. ...")
InitiatingDiagnostic(b, a, trace_id) ==
    [ level |-> "INFO", event |-> "Initiating transaction account not in accounts",
      args |-> <<get_tx_hash(Initiating(b)), trace_id, a.action_id>> ]

\* action.accounts after line 719
AccountsWithInitiating(accounts, b) ==
    IF AppendsInitiatingAccount(b)
    THEN Append(accounts, message_transaction_account(Initiating(b)))
    ELSE accounts

\* The final list without the `is not None` filter.
FinalAccounts_KeepsNone(accounts) == ListOfSet(Elems(accounts))

\* list(set(a for a in action.accounts if a is not None)), line 722
FinalAccounts(accounts) ==
    ListOfSet({x \in Elems(accounts) : x # None})

\* What lines 713-718 log.
AssembleLog(b, a, trace_id) ==
    IF AppendsInitiatingAccount(b)
       /\ AccountNotInAccounts(message_transaction_account(Initiating(b)),
                               AccountsAfterFill(a))
    THEN <<InitiatingDiagnostic(b, a, trace_id)>>
    ELSE <<>>

\* An assembler that adds the initiating node's hash as it is, without the
\* `or ""` of line 712.
Assembled_RawInitiatingHash(b, a) ==
    { [a EXCEPT !.extended_tx_hashes = extended_tx_hashes, !.accounts = accounts] :
        extended_tx_hashes \in
            ListOfSet(Elems(a.tx_hashes) \cup
                        (IF HasInitiating(b) THEN {get_tx_hash(Initiating(b))} ELSE {})),
        accounts \in FinalAccounts(AccountsWithInitiating(AccountsAfterFill(a), b)) }

\* The Actions block_to_action can return, from the Action the normalizer
\* left: one for each order of extended_tx_hashes and of accounts.
Assembled(b, a) ==
    { [a EXCEPT !.extended_tx_hashes = extended_tx_hashes, !.accounts = accounts] :
        extended_tx_hashes \in ListOfSet(ExtendedTxHashSet(a, b)),
        accounts \in FinalAccounts(AccountsWithInitiating(AccountsAfterFill(a), b)) }

-----------------------------------------------------------------------------
(* The inputs: blocks as the upstream classifier hands them over.          *)

Opt(x) == {None, x}

OptAmounts == {None, "Amount(0)", "Amount(7)"}

\* The legs of the sampled swaps.
SwapIncoming ==
    [ amount |-> "Amount(7)", source |-> "AccountId(S)",
      source_jetton_wallet |-> "AccountId(SW)", destination |-> "AccountId(P)",
      destination_jetton_wallet |-> None, asset |-> "Asset(J)" ]

SwapOutgoing ==
    [ amount |-> "Amount(3)", source |-> "AccountId(P)",
      source_jetton_wallet |-> None, destination |-> "AccountId(D)",
      destination_jetton_wallet |-> "AccountId(DW)", asset |-> "Asset(J2)" ]

DnsValues ==
    { [schema |-> "DNSNextResolver", address |-> "AccountId(D)", flags |-> Missing,
       dns_text |-> Missing],
      [schema |-> "DNSSmcAddress", address |-> "AccountId(D)", flags |-> "1",
       dns_text |-> Missing],
      [schema |-> "DNSAdnlAddress", address |-> "adnl", flags |-> "0",
       dns_text |-> Missing],
      [schema |-> "DNSText", address |-> Missing, flags |-> Missing, dns_text |-> "txt"],
      [schema |-> "DNSStorageAddress", address |-> "bag", flags |-> Missing,
       dns_text |-> Missing] }

JettonTransferPayload(asset, receiver_wallet, comment, encrypted) ==
    [ sender |-> "AccountId(S)", sender_wallet |-> "AccountId(SW)",
      receiver |-> "AccountId(D)", receiver_wallet |-> receiver_wallet,
      amount |-> "Amount(7)", asset |-> asset, comment |-> comment,
      encrypted_comment |-> encrypted, query_id |-> "0", response_address |-> None,
      forward_amount |-> "Amount(0)", custom_payload |-> "CP", forward_payload |-> "FP" ]

\* The payloads sampled for each block class.
Payloads(cls) ==
    CASE cls \in {"CallContractBlock", "ContractDeployBlock"} ->
           { [value |-> "Amount(7)", source |-> src, destination |-> dst] :
               src \in Opt("AccountId(S)"), dst \in Opt("AccountId(D)") }
      [] cls = "TonTransferBlock" ->
           { [source |-> "AccountId(S)", destination |-> dst, comment |-> c,
              encrypted |-> FALSE] :
               dst \in Opt("AccountId(D)"), c \in {<<>>, << <<"h", "NUL", "i">> >>} }
      [] cls = "NominatorPoolDepositBlock" ->
           { [source |-> "AccountId(S)", pool |-> "AccountId(P)", value |-> "Amount(7)"] }
      [] cls = "NominatorPoolWithdrawRequestBlock" ->
           { [source |-> "AccountId(S)", pool |-> "AccountId(P)", payout_amount |-> x] :
               x \in OptAmounts }
      [] cls = "DedustDepositLiquidityBlock" ->
           { [dex |-> "dedust", sender |-> src, pool_address |-> pool,
              deposit_contract |-> "AccountId(DW)", asset_1 |-> "Asset(TON)", asset_2 |-> "Asset(J)",
              amount_1 |-> "Amount(7)", amount_2 |-> "Amount(3)",
              user_jetton_wallet_1 |-> None, user_jetton_wallet_2 |-> "AccountId(SW)",
              lp_tokens_minted |-> "Amount(3)"] :
               src \in Opt("AccountId(S)"), pool \in Opt("AccountId(P)") }
      [] cls = "DedustDepositLiquidityPartialBlock" ->
           { [dex |-> "dedust", sender |-> src, deposit_contract |-> dc,
              asset_1 |-> "Asset(TON)", asset_2 |-> "Asset(J)",
              amount_1 |-> "Amount(7)", amount_2 |-> "Amount(3)",
              user_jetton_wallet_1 |-> None, user_jetton_wallet_2 |-> "AccountId(SW)"] :
               src \in Opt("AccountId(S)"), dc \in Opt("AccountId(DW)") }
      [] cls = "JettonTransferBlock" ->
           { JettonTransferPayload(asset, rw, <<>>, FALSE) :
               asset \in {None, "Asset(TON)", "Asset(J)"},
               rw \in {Missing, "AccountId(DW)"} }
           \cup { JettonTransferPayload("Asset(J)", "AccountId(DW)",
                                        << <<"a", "NUL", "b">> >>, e) : e \in BOOLEAN }
           \cup { [JettonTransferPayload("Asset(J)", "AccountId(DW)", <<>>, FALSE)
                     EXCEPT !.custom_payload = Missing] }
      [] cls = "NftTransferBlock" ->
           { [prev_owner |-> po, new_owner |-> "AccountId(D)", nft_address |-> "AccountId(N)",
              nft_collection |-> coll, nft_index |-> "1", query_id |-> "0",
              is_purchase |-> FALSE, price |-> Missing, forward_amount |-> None,
              custom_payload |-> None, forward_payload |-> "FP",
              response_destination |-> None] :
               po \in {Missing, None, "AccountId(S)"}, coll \in Opt("AccountId(C)") }
           \cup
           { [prev_owner |-> "AccountId(S)", new_owner |-> "AccountId(D)",
              nft_address |-> "AccountId(N)", nft_collection |-> "AccountId(C)",
              nft_index |-> "1", query_id |-> "0", is_purchase |-> FALSE,
              price |-> Missing, forward_amount |-> None, custom_payload |-> "CP",
              forward_payload |-> Missing, response_destination |-> None] }
      [] cls = "NftDiscoveryBlock" ->
           { [sender |-> "AccountId(S)", nft |-> "AccountId(N)",
              result_collection |-> "AccountId(C)", result_index |-> "1",
              query_id |-> "0"] }
      [] cls = "NftMintBlock" ->
           { [source |-> src, address |-> "AccountId(N)", collection |-> coll,
              opcode |-> "1", index |-> "1"] :
               src \in Opt("AccountId(S)"), coll \in Opt("AccountId(C)") }
      [] cls = "JettonBurnBlock" ->
           { [owner |-> "AccountId(S)", jetton_wallet |-> "AccountId(SW)",
              asset |-> "Asset(J)", amount |-> x] : x \in OptAmounts }
      [] cls = "JettonMintBlock" ->
           { [to |-> to, to_jetton_wallet |-> "AccountId(DW)", asset |-> "Asset(J)",
              amount |-> x, ton_amount |-> y] :
               to \in Opt("AccountId(D)"), x \in OptAmounts, y \in Opt("Amount(3)") }
      [] cls = "JettonSwapBlock" ->
           { [dex |-> dex, sender |-> "AccountId(S)",
              dex_incoming_transfer |-> SwapIncoming,
              dex_outgoing_transfer |-> SwapOutgoing,
              source_asset |-> sa, destination_asset |-> da, destination_wallet |-> dw] :
               dex \in {"dedust"}, sa \in {Missing, "Asset(J2)"},
               da \in {Missing, None, "Asset(J)"}, dw \in {Missing, "AccountId(C)"} }
           \cup
           { [dex |-> dex, sender |-> "AccountId(S)",
              dex_incoming_transfer |-> SwapIncoming,
              dex_outgoing_transfer |-> SwapOutgoing,
              source_asset |-> sa, destination_asset |-> da, destination_wallet |-> dw] :
               dex \in {"stonfi_v2"}, sa \in {None, "Asset(J2)"},
               da \in {None, "Asset(J)"}, dw \in {Missing} }
      [] cls = "DnsChangeRecordBlock" ->
           { [source |-> "AccountId(S)", destination |-> "AccountId(N)", key |-> "key",
              value |-> v] : v \in DnsValues }
           \cup
           { [source |-> None, destination |-> "AccountId(N)", key |-> "key",
              value |-> [schema |-> "DNSText", address |-> Missing, flags |-> Missing,
                         dns_text |-> "txt"]] }
      [] cls = "DnsDeleteRecordBlock" ->
           { [source |-> src, destination |-> "AccountId(N)", key |-> "key"] :
               src \in Opt("AccountId(S)") }
      [] cls = "DnsRenewBlock" ->
           { [source |-> src, destination |-> dst] :
               src \in Opt("AccountId(S)"), dst \in Opt("AccountId(N)") }
      [] cls = "TONStakersDepositBlock" ->
           { [source |-> src, pool |-> "AccountId(P)", value |-> "Amount(7)"] :
               src \in Opt("AccountId(S)") }
      [] cls = "TONStakersWithdrawRequestBlock" ->
           { [source |-> "AccountId(S)", tsTON_wallet |-> w, pool |-> "AccountId(P)",
              tokens_burnt |-> "Amount(7)", minted_nft |-> None] :
               w \in Opt("AccountId(SW)") }
      [] cls = "TONStakersWithdrawBlock" ->
           { [stake_holder |-> "AccountId(S)", pool |-> "AccountId(P)",
              amount |-> "Amount(7)", burnt_nft |-> "AccountId(N)"] }
      [] cls \in {"SubscribeBlock", "UnsubscribeBlock"} ->
           { [subscriber |-> "AccountId(S)", beneficiary |-> ben,
              subscription |-> "AccountId(DW)", amount |-> "Amount(7)"] :
               ben \in Opt("AccountId(D)") }
      [] cls = "DexDepositLiquidityBlock" ->
           { [dex |-> "stonfi", sender |-> src, pool |-> pool,
              amount_1 |-> "Amount(7)", amount_2 |-> None,
              asset_1 |-> "Asset(TON)", asset_2 |-> "Asset(J)",
              sender_wallet_1 |-> None, sender_wallet_2 |-> "AccountId(SW)",
              lp_tokens_minted |-> None] :
               src \in Opt("AccountId(S)"), pool \in Opt("AccountId(P)") }
      [] cls = "DexWithdrawLiquidityBlock" ->
           { [dex |-> "stonfi", sender |-> "AccountId(S)", sender_wallet |-> sw,
              pool |-> pool, asset |-> "Asset(J)",
              amount1_out |-> "Amount(7)", amount2_out |-> None,
              asset1_out |-> "Asset(TON)", asset2_out |-> "Asset(J2)",
              wallet1 |-> None, wallet2 |-> "AccountId(DW)",
              dex_jetton_wallet_1 |-> None, dex_wallet_1 |-> "AccountId(P)",
              dex_wallet_2 |-> "AccountId(P)", dex_jetton_wallet_2 |-> None,
              is_refund |-> FALSE, lp_tokens_burnt |-> "Amount(3)"] :
               sw \in Opt("AccountId(SW)"), pool \in Opt("AccountId(P)") }
      [] cls = "JVaultStakeBlock" ->
           { [sender |-> "AccountId(S)", stake_wallet |-> w, staking_pool |-> "AccountId(P)",
              staked_amount |-> "7", period |-> "30", minted_stake_jettons |-> "7"] :
               w \in Opt("AccountId(SW)") }
      [] cls = "JVaultUnstakeBlock" ->
           { [sender |-> "AccountId(S)", stake_wallet |-> w, staking_pool |-> "AccountId(P)",
              unstaked_amount |-> "7"] : w \in Opt("AccountId(SW)") }
      [] cls = "JVaultClaimBlock" ->
           { [sender |-> "AccountId(S)", stake_wallet |-> w, staking_pool |-> "AccountId(P)",
              claimed_jettons |-> <<"AccountId(J)">>, claimed_amounts |-> <<"7">>] :
               w \in Opt("AccountId(SW)") }
      [] cls = "MultisigCreateOrderBlock" ->
           { [created_by |-> "AccountId(S)", multisig |-> "AccountId(D)",
              order_contract_address |-> oc, query_id |-> "0", order_seqno |-> "1",
              is_created_by_signer |-> TRUE, creator_approved |-> FALSE,
              creator_index |-> "0", expiration_date |-> "9", order_boc_str |-> "boc"] :
               oc \in Opt("AccountId(DW)") }
      [] cls = "MultisigApproveBlock" ->
           { [signer |-> "AccountId(S)", order |-> "AccountId(D)", success |-> ok,
              signer_index |-> "0", exit_code |-> "0"] : ok \in BOOLEAN }
      [] cls = "VestingSendMessageBlock" ->
           { [sender |-> "AccountId(S)", vesting |-> "AccountId(D)",
              message_destination |-> md, message_value |-> "Amount(7)",
              query_id |-> "0", message_boc_str |-> "boc"] :
               md \in Opt("AccountId(DW)") }
      [] cls = "VestingAddWhiteListBlock" ->
           { [adder |-> "AccountId(S)", vesting |-> "AccountId(D)", query_id |-> "0",
              accounts_added |-> <<"AccountId(C)", "AccountId(N)">>] }
      [] cls \in {"ElectionDepositStakeBlock", "ElectionRecoverStakeBlock"} ->
           { [stake_holder |-> "AccountId(S)", amount |-> x] :
               x \in {Missing, "Amount(7)"} }
      [] cls = "AuctionBidBlock" ->
           { [bidder |-> "AccountId(S)", auction |-> "AccountId(D)",
              nft_address |-> "AccountId(N)", nft_collection |-> coll,
              nft_item_index |-> "1", amount |-> "Amount(7)"] :
               coll \in Opt("AccountId(C)") }
      [] OTHER -> { [opaque |-> TRUE] }

\* The operation type tag each block class passes to Block.__init__.
BtypeOf(cls) ==
    CASE cls = "CallContractBlock" -> "call_contract"
      [] cls = "ContractDeployBlock" -> "contract_deploy"
      [] cls = "TonTransferBlock" -> "ton_transfer"
      [] cls = "NominatorPoolDepositBlock" -> "nominator_pool_deposit"
      [] cls = "NominatorPoolWithdrawRequestBlock" -> "nominator_pool_withdraw_request"
      [] cls = "DedustDepositLiquidityBlock" -> "dedust_deposit_liquidity"
      [] cls = "DedustDepositLiquidityPartialBlock" -> "dedust_deposit_liquidity_partial"
      [] cls = "JettonTransferBlock" -> "jetton_transfer"
      [] cls = "NftTransferBlock" -> "nft_transfer"
      [] cls = "NftDiscoveryBlock" -> "nft_discovery"
      [] cls = "NftMintBlock" -> "nft_mint"
      [] cls = "JettonBurnBlock" -> "jetton_burn"
      [] cls = "JettonMintBlock" -> "jetton_mint"
      [] cls = "JettonSwapBlock" -> "jetton_swap"
      [] cls = "DnsChangeRecordBlock" -> "change_dns"
      [] cls = "DnsDeleteRecordBlock" -> "delete_dns"
      [] cls = "DnsRenewBlock" -> "renew_dns"
      [] cls = "TONStakersDepositBlock" -> "tonstakers_deposit"
      [] cls = "TONStakersWithdrawRequestBlock" -> "tonstakers_withdraw_request"
      [] cls = "TONStakersWithdrawBlock" -> "tonstakers_withdraw"
      [] cls = "SubscribeBlock" -> "subscribe"
      [] cls = "DexDepositLiquidityBlock" -> "dex_deposit_liquidity"
      [] cls = "DexWithdrawLiquidityBlock" -> "dex_withdraw_liquidity"
      [] cls = "JVaultStakeBlock" -> "jvault_stake"
      [] cls = "JVaultUnstakeBlock" -> "jvault_unstake"
      [] cls = "JVaultClaimBlock" -> "jvault_claim"
      [] cls = "MultisigCreateOrderBlock" -> "multisig_create_order"
      [] cls = "MultisigApproveBlock" -> "multisig_approve"
      [] cls = "VestingSendMessageBlock" -> "vesting_send_message"
      [] cls = "VestingAddWhiteListBlock" -> "vesting_add_whitelist"
      [] cls = "UnsubscribeBlock" -> "unsubscribe"
      [] cls = "ElectionDepositStakeBlock" -> "election_deposit"
      [] cls = "ElectionRecoverStakeBlock" -> "election_recover"
      [] cls = "AuctionBidBlock" -> "auction_bid"
      [] OTHER -> "some_new_operation"

Min(S) == CHOOSE x \in S : \A y \in S : x <= y

Max(S) == CHOOSE x \in S : \A y \in S : x >= y

\* Block.min_lt / max_lt: over the block's nodes, 0 for a block without nodes.
BlockMinLt(nodes) == IF nodes = <<>> THEN 0 ELSE Min({get_lt(n) : n \in Elems(nodes)})

BlockMaxLt(nodes) == IF nodes = <<>> THEN 0 ELSE Max({get_lt(n) : n \in Elems(nodes)})

\* A block.  The sampled blocks take their wall times equal to their logical
\* times; opcode and value are the attributes CallContractBlock and
\* TonTransferBlock carry beside their payload.
MkBlock(cls, nodes, data, failed, initiating) ==
    [ cls |-> cls, btype |-> BtypeOf(cls), event_nodes |-> nodes, data |-> data,
      min_lt |-> BlockMinLt(nodes), max_lt |-> BlockMaxLt(nodes),
      min_utime |-> BlockMinLt(nodes), max_utime |-> BlockMaxLt(nodes),
      failed |-> failed, initiating_event_node |-> initiating,
      opcode |-> "42", value |-> "7" ]

Initiators == {<<>>} \cup {<<n>> : n \in InitiatingPool}

\* The blocks that vary the payload: every class with every sampled payload,
\* failed or not, on no event node or on one; and again, not failed, on one
\* event node with a message node outside the block as initiating node.
PayloadBlocks ==
    UNION { { MkBlock(cls, nodes, data, failed, <<>>) :
                nodes \in {<<>>, <<MsgNode(1, "h1", "0:S", "m1")>>},
                data \in Payloads(cls), failed \in BOOLEAN }
            \cup
            { MkBlock(cls, <<MsgNode(1, "h1", "0:S", "m1")>>, data, FALSE,
                      <<MsgNode(0, "h0", "0:P", "m0")>>) : data \in Payloads(cls) } :
            cls \in KnownClasses \cup UnknownClasses }

\* The classes sampled with every event-node collection and initiating node:
\* all but the three whose Actions name the most accounts.
NodeVariedClasses ==
    (KnownClasses \cup UnknownClasses)
        \ {"JettonTransferBlock", "JettonMintBlock", "JettonSwapBlock"}

\* The blocks that vary the event nodes and the initiating node, not failed.
NodeBlocks ==
    UNION { { MkBlock(cls, nodes, data, FALSE, initiating) :
                nodes \in NodeSeqs, data \in Payloads(cls),
                initiating \in Initiators } :
            cls \in NodeVariedClasses }

Blocks == PayloadBlocks \cup NodeBlocks

TraceIds == {"T1"}

-----------------------------------------------------------------------------
(* The state: the inputs, and each call of block_to_action.                *)

VARIABLES
    block,      \* the Block handed to block_to_action
    trace_id,   \* the trace id handed to block_to_action
    procs,      \* the calls of block_to_action that are made
    interp,     \* interp[p]: the interpreter process that call p runs in
    pc,         \* pc[p]: where call p stands
    action,     \* action[p]: the Action under construction, <<>> before it exists
    log,        \* log[p]: what the call has logged or printed, in order
    ran         \* ran[p]: the normalizers the call has entered, in order

vars == <<block, trace_id, procs, interp, pc, action, log, ran>>

AllProcs == {1, 2}

Act(p) == action[p][1]

\* The calls ps start.  Only whether two calls share an interpreter process
\* matters, so the first call runs in interpreter 0.
InitCalls(ps) ==
    /\ procs = ps
    /\ interp \in [AllProcs -> Interpreters]
    /\ interp[1] = 0
    /\ \A p \in AllProcs \ ps : interp[p] = 0
    /\ pc = [p \in AllProcs |-> IF p \in ps THEN "start" ELSE "idle"]
    /\ action = [p \in AllProcs |-> <<>>]
    /\ log = [p \in AllProcs |-> <<>>]
    /\ ran = [p \in AllProcs |-> <<>>]

\* One call of block_to_action on any sampled block.
Init ==
    /\ block \in Blocks
    /\ trace_id \in TraceIds
    /\ InitCalls({1})

\* The calls that run in call p's interpreter process and have built an Action.
SameInterpreter(p) == {q \in procs \ {p} : interp[q] = interp[p] /\ action[q] # <<>>}

\* Inside one interpreter process the same set is listed in the same order:
\* the list call p builds for a field is the one a call in its process built.
OrdersAlike(p, a, fields, at) ==
    \A q \in SameInterpreter(p) :
        pc[q] \in at => \A f \in fields : a[f] = action[q][1][f]

\* A base converter whose action_id is built with the interpreter's own
\* hash(), which differs from one interpreter process to another.
Base_IdFromBuiltinHash(p) ==
    /\ pc[p] = "start"
    /\ IF BaseRaises(block)
       THEN /\ pc' = [pc EXCEPT ![p] = "raised"]
            /\ UNCHANGED action
       ELSE /\ pc' = [pc EXCEPT ![p] = "dispatch"]
            /\ \E a \in _base_block_to_action(block, trace_id) :
                  /\ OrdersAlike(p, a, {"tx_hashes"}, {"dispatch", "assemble", "done", "raised"})
                  /\ action' = [action EXCEPT
                        ![p] = << [a EXCEPT
                                     !.action_id = "hash:" \o ToString(interp[p]) \o ":"
                                                   \o ActionKey(PyMin(block.event_nodes))
                                                   \o block.btype] >>]
    /\ UNCHANGED <<block, trace_id, procs, interp, log, ran>>

\* action = _base_block_to_action(block, trace_id)
Base(p) ==
    /\ pc[p] = "start"
    /\ IF BaseRaises(block)
       THEN /\ pc' = [pc EXCEPT ![p] = "raised"]
            /\ UNCHANGED action
       ELSE /\ pc' = [pc EXCEPT ![p] = "dispatch"]
            /\ \E a \in _base_block_to_action(block, trace_id) :
                  /\ OrdersAlike(p, a, {"tx_hashes"}, {"dispatch", "assemble", "done", "raised"})
                  /\ action' = [action EXCEPT ![p] = <<a>>]
    /\ UNCHANGED <<block, trace_id, procs, interp, log, ran>>

\* match block: ...
Dispatch(p) ==
    /\ pc[p] = "dispatch"
    /\ LET name == Dispatcher(block.cls)
       IN  IF name = Fallback
           THEN /\ log' = [log EXCEPT ![p] = Append(@, UnknownTypeWarning(block, trace_id))]
                /\ pc' = [pc EXCEPT ![p] = "assemble"]
                /\ UNCHANGED <<action, ran>>
           ELSE LET r == ApplyNormalizer(name, block, Act(p))
                IN  /\ ran' = [ran EXCEPT ![p] = Append(@, name)]
                    /\ log' = [log EXCEPT ![p] = @ \o r.out]
                    /\ IF r.raised
                       THEN /\ pc' = [pc EXCEPT ![p] = "raised"]
                            /\ UNCHANGED action
                       ELSE /\ pc' = [pc EXCEPT ![p] = "assemble"]
                            /\ action' = [action EXCEPT ![p] = r.action]
    /\ UNCHANGED <<block, trace_id, procs, interp>>

\* Fill accounts, fill extended tx hashes, return action
Assemble(p) ==
    /\ pc[p] = "assemble"
    /\ log' = [log EXCEPT ![p] = @ \o AssembleLog(block, Act(p), trace_id)]
    /\ \E a \in Assembled(block, Act(p)) :
          /\ OrdersAlike(p, a, {"extended_tx_hashes", "accounts"}, {"done"})
          /\ action' = [action EXCEPT ![p] = <<a>>]
    /\ pc' = [pc EXCEPT ![p] = "done"]
    /\ UNCHANGED <<block, trace_id, procs, interp, ran>>

BaseStep == \E p \in procs : Base(p)

DispatchStep == \E p \in procs : Dispatch(p)

AssembleStep == \E p \in procs : Assemble(p)

Next == BaseStep \/ DispatchStep \/ AssembleStep

Spec == Init /\ [][Next]_vars

\* The blocks on which two calls are compared: not failed, with no initiating
\* node or the one outside the block.
DetBlocks ==
    { b \in PayloadBlocks : ~b.failed /\ b.initiating_event_node = <<>> }
    \cup
    { b \in NodeBlocks :
        /\ b.cls \in UnknownClasses
        /\ b.initiating_event_node \in {<<>>, <<MsgNode(0, "h0", "0:P", "m0")>>} }

\* Two calls on the same block and trace id, in any interleaving: in one
\* interpreter process, or each in a process of its own.
InitDet ==
    /\ block \in DetBlocks
    /\ trace_id \in TraceIds
    /\ InitCalls(AllProcs)

SpecDet == InitDet /\ [][Next]_vars

-----------------------------------------------------------------------------
(* Properties.                                                             *)

Returns(p) == pc[p] = "done"

NoDuplicates(s) == \A i, j \in DOMAIN s : i # j => s[i] # s[j]

\* The records of a log at one level, in order.
AtLevel(s, level) == SelectSeq(s, LAMBDA e : e.level = level)

\* Call p has ended: it returned or an exception escaped.
Ended(p) == pc[p] \in {"done", "raised"}

\* The base converter has run for call p and returned.
BaseDone(p) == action[p] # <<>>

\* The accounts of the block's event nodes.
NodeAccounts(b) == {b.event_nodes[i].account : i \in DOMAIN b.event_nodes}

\* The four source/destination fields of an Action.
Parties(a) == {a.source, a.source_secondary, a.destination, a.destination_secondary}

\* The payload attributes an Action has populated.
Populated(a) == {attr \in PayloadAttrs : a[attr] # Unset}

\* C1: in every Action block_to_action returns, accounts holds no null entry
\* and no entry twice.
AccountSetHygiene ==
    \A p \in procs :
        Returns(p) =>
            /\ \A i \in DOMAIN Act(p).accounts : Act(p).accounts[i] # None
            /\ NoDuplicates(Act(p).accounts)

\* A returned Action built from a null field, an account met twice (a node's
\* and the source) and a message-borne initiating node.
AccountSetHygieneWitness ==
    /\ Returns(1)
    /\ Act(1).source_secondary = None
    /\ Act(1).source \in NodeAccounts(block)
    /\ AppendsInitiatingAccount(block)
    /\ Len(Act(1).accounts) >= 2

\* C2: in every Action block_to_action returns, every element of tx_hashes is
\* an element of extended_tx_hashes.
HashSuperset ==
    \A p \in procs :
        Returns(p) => Elems(Act(p).tx_hashes) \subseteq Elems(Act(p).extended_tx_hashes)

\* A returned Action with two transaction hashes, one of them unavailable, and
\* an initiating node whose own hash is unavailable.
HashSupersetWitness ==
    /\ Returns(1)
    /\ Len(Act(1).tx_hashes) = 2
    /\ HasInitiating(block)
    /\ get_tx_hash(Initiating(block)) = None
    /\ "" \in Elems(Act(1).extended_tx_hashes)

\* C3: block_to_action cannot fail: no exception escapes a call, whatever the
\* block.
NoFaultEscapes == \A p \in procs : pc[p] # "raised"

\* An Action with its three lists taken as sets.
Unordered(a) ==
    [a EXCEPT !.tx_hashes = Elems(a.tx_hashes),
              !.extended_tx_hashes = Elems(a.extended_tx_hashes),
              !.accounts = Elems(a.accounts)]

FirstMinimum(nodes) ==
    nodes[CHOOSE i \in DOMAIN nodes :
            /\ \A j \in DOMAIN nodes : nodes[i].lt <= nodes[j].lt
            /\ \A j \in DOMAIN nodes : j < i => nodes[j].lt > nodes[i].lt]

\* A node's key: its message hash if it carries a message, else its
\* transaction hash, else the empty string.
RootKey(n) ==
    IF ~n.is_tick_tock THEN n.msg_hash
    ELSE IF n.tx_hash = None THEN "" ELSE n.tx_hash

\* C5: action_id is the digest of the root node's key followed by the block's
\* type tag, where the root is the first node of least logical time and the key
\* is its message hash, else its transaction hash, else the empty string; the
\* other nodes, the payload and the trace id do not enter.
ActionIdOfRoot ==
    \A p \in procs :
        BaseDone(p) =>
            Act(p).action_id = Sha256B64(RootKey(FirstMinimum(block.event_nodes)) \o block.btype)

\* A returned Action of a block whose first node is a tick-tock node without
\* transaction hash and whose second node, a message node, has the same time.
ActionIdOfRootWitness ==
    /\ Returns(1)
    /\ Len(block.event_nodes) = 2
    /\ block.event_nodes[1].is_tick_tock
    /\ ~block.event_nodes[2].is_tick_tock
    /\ block.event_nodes[1].lt = block.event_nodes[2].lt
    /\ Act(1).action_id = Sha256B64("" \o block.btype)

\* C6: for a block of no known class the call raises nothing, warns exactly
\* once, naming the type and the trace id, and returns an Action with only the
\* base converter's fields populated.
UnknownTypeHandled ==
    \A p \in procs :
        (block.cls \notin KnownClasses /\ Ended(p)) =>
            /\ Returns(p)
            /\ AtLevel(log[p], "WARNING") = <<UnknownTypeWarning(block, trace_id)>>
            /\ Parties(Act(p)) = {None}
            /\ Act(p).asset = None /\ Act(p).asset2 = None
            /\ Act(p).amount = None /\ Act(p).value = None /\ Act(p).opcode = None
            /\ Populated(Act(p)) = {}

\* C7: every known class has a case other than the fallback; in every call
\* that has ended, on a block of a known class exactly one normalizer was
\* entered and no unknown-type warning was logged, and on any other block no
\* normalizer was entered and the unknown-type warning was logged exactly once.
DispatchExhaustive ==
    /\ Cardinality(KnownClasses) = 34
    /\ \A cls \in KnownClasses : Dispatcher(cls) # Fallback
    /\ \A p \in procs :
          Ended(p) =>
              IF block.cls \in KnownClasses
              THEN /\ Len(ran[p]) = 1
                   /\ ran[p][1] # Fallback
                   /\ AtLevel(log[p], "WARNING") = <<>>
              ELSE /\ ran[p] = <<>>
                   /\ AtLevel(log[p], "WARNING") = <<UnknownTypeWarning(block, trace_id)>>

\* The classes whose normalizer populates no payload.
NoPayloadClasses ==
    { "CallContractBlock", "ContractDeployBlock", "JettonBurnBlock", "JettonMintBlock",
      "DnsRenewBlock", "JVaultUnstakeBlock", "SubscribeBlock", "UnsubscribeBlock",
      "ElectionDepositStakeBlock", "ElectionRecoverStakeBlock" }

\* The payload the normalizer of each other known class populates.
PayloadOfClass(cls) ==
    CASE cls = "TonTransferBlock" -> "ton_transfer_data"
      [] cls = "JettonTransferBlock" -> "jetton_transfer_data"
      [] cls \in {"NftTransferBlock", "AuctionBidBlock"} -> "nft_transfer_data"
      [] cls = "NftDiscoveryBlock" -> "nft_discovery_data"
      [] cls = "NftMintBlock" -> "nft_mint_data"
      [] cls = "JettonSwapBlock" -> "jetton_swap_data"
      [] cls \in {"DexDepositLiquidityBlock", "DedustDepositLiquidityBlock",
                  "DedustDepositLiquidityPartialBlock"} -> "dex_deposit_liquidity_data"
      [] cls = "DexWithdrawLiquidityBlock" -> "dex_withdraw_liquidity_data"
      [] cls = "JVaultStakeBlock" -> "jvault_stake_data"
      [] cls = "JVaultClaimBlock" -> "jvault_claim_data"
      [] cls = "MultisigCreateOrderBlock" -> "multisig_create_order_data"
      [] cls = "MultisigApproveBlock" -> "multisig_approve_data"
      [] cls = "VestingSendMessageBlock" -> "vesting_send_message_data"
      [] cls = "VestingAddWhiteListBlock" -> "vesting_add_whitelist_data"
      [] cls \in {"DnsChangeRecordBlock", "DnsDeleteRecordBlock"} -> "change_dns_record_data"
      [] cls \in {"NominatorPoolDepositBlock", "NominatorPoolWithdrawRequestBlock",
                  "TONStakersDepositBlock", "TONStakersWithdrawRequestBlock",
                  "TONStakersWithdrawBlock"} -> "staking_data"

\* C8, as amended: a returned Action has at most one payload populated: none
\* for a block of no known class and for the ten classes whose normalizer fills
\* generic fields only, and for every other known class exactly the one payload
\* its class selects.
AtMostOnePayload ==
    \A p \in procs :
        Returns(p) =>
            /\ Cardinality(Populated(Act(p))) <= 1
            /\ Populated(Act(p)) =
                  IF block.cls \in KnownClasses \ NoPayloadClasses
                  THEN {PayloadOfClass(block.cls)}
                  ELSE {}

\* A returned Action of a JVault unstake, with no payload, after its normalizer
\* ran.
AtMostOnePayloadWitness ==
    /\ Returns(1)
    /\ block.cls = "JVaultUnstakeBlock"
    /\ ran[1] = <<"_fill_jvault_unstake">>
    /\ Populated(Act(1)) = {}

\* C8, as stated: a returned Action has exactly one payload populated when the
\* block's class is known, none otherwise.
ExactlyOnePayload ==
    \A p \in procs :
        Returns(p) =>
            Cardinality(Populated(Act(p))) = IF block.cls \in KnownClasses THEN 1 ELSE 0

\* C9: a returned Action of a nominator-pool withdrawal request has type
\* stake_withdrawal_request and no amount when the payload has no payout, type
\* stake_withdrawal and the payout as amount otherwise; staking_data names the
\* provider nominator; source and destination are the payload's source and pool.
NominatorWithdrawRequest ==
    \A p \in procs :
        (Returns(p) /\ block.cls = "NominatorPoolWithdrawRequestBlock") =>
            /\ IF block.data.payout_amount = None
               THEN Act(p).type = "stake_withdrawal_request" /\ Act(p).amount = None
               ELSE /\ Act(p).type = "stake_withdrawal"
                    /\ Act(p).amount = ValueTable[block.data.payout_amount]
            /\ Act(p).staking_data = << [provider |-> "nominator"] >>
            /\ Act(p).source = AsStrTable[block.data.source]
            /\ Act(p).destination = AsStrTable[block.data.pool]

\* A returned Action of a withdrawal request whose payout is present and zero.
NominatorWithdrawRequestWitness ==
    /\ Returns(1)
    /\ block.cls = "NominatorPoolWithdrawRequestBlock"
    /\ block.data.payout_amount = "Amount(0)"
    /\ Act(1).type = "stake_withdrawal"
    /\ Act(1).amount = "0"

\* C10: when the block's initiating node is a message node, its account is in
\* the returned Action's accounts, and the diagnostic is logged exactly when
\* that account is neither a node's account nor one of the four
\* source/destination fields; when the initiating node is a tick-tock node or
\* absent, no diagnostic is logged and accounts holds the nodes' accounts and the
\* non-null source/destination fields only.
InitiatingAccountRule ==
    \A p \in procs :
        Returns(p) =>
            LET before == NodeAccounts(block) \cup Parties(Act(p))
                info == AtLevel(log[p], "INFO")
            IN  IF block.initiating_event_node # <<>>
                   /\ ~block.initiating_event_node[1].is_tick_tock
                THEN LET acc == block.initiating_event_node[1].account
                     IN  /\ acc \in Elems(Act(p).accounts)
                         /\ Len(info) <= 1
                         /\ Len(info) = 1 <=> acc \notin before
                ELSE /\ info = <<>>
                     /\ Elems(Act(p).accounts) = before \ {None}

\* A returned Action whose block names a message node outside it as initiating
\* node, with an account met nowhere else: the account is added and the
\* diagnostic logged.
InitiatingAccountRuleWitness ==
    /\ Returns(1)
    /\ block.initiating_event_node = <<MsgNode(0, "h0", "0:P", "m0")>>
    /\ "0:P" \notin NodeAccounts(block) \cup Parties(Act(1))
    /\ "0:P" \in Elems(Act(1).accounts)
    /\ Len(AtLevel(log[1], "INFO")) = 1

\* The initiating node is one of the block's own event nodes.
InitiatingInBlock(b) == HasInitiating(b) /\ Initiating(b) \in Elems(b.event_nodes)

\* C11 as stated: extended_tx_hashes is, as a set, tx_hashes united with the
\* initiating node's transaction hash when an initiating node exists and is not
\* one of the block's nodes, and is tx_hashes exactly otherwise; it holds no
\* other element.
ExtendedHashesAsStated ==
    \A p \in procs :
        Returns(p) =>
            LET tx == Elems(Act(p).tx_hashes)
                ext == Elems(Act(p).extended_tx_hashes)
            IN  IF HasInitiating(block) /\ ~InitiatingInBlock(block)
                THEN ext = tx \cup {get_tx_hash(Initiating(block))}
                ELSE ext = tx

\* C11: extended_tx_hashes holds no element twice and is, as a set, tx_hashes
\* when the block has no initiating node, and otherwise tx_hashes united with
\* the initiating node's transaction hash, or with the empty string when that
\* node has no transaction hash, whether or not the node is one of the block's
\* own; so it is tx_hashes exactly when that hash is already among them.
ExtendedHashes ==
    \A p \in procs :
        Returns(p) =>
            LET tx == Elems(Act(p).tx_hashes)
                ext == Elems(Act(p).extended_tx_hashes)
            IN  /\ NoDuplicates(Act(p).extended_tx_hashes)
                /\ ~HasInitiating(block) => ext = tx
                /\ HasInitiating(block) /\ Initiating(block).tx_hash # None
                       => ext = tx \cup {Initiating(block).tx_hash}
                /\ HasInitiating(block) /\ Initiating(block).tx_hash = None
                       => ext = tx \cup {""}
                /\ InitiatingInBlock(block) /\ Initiating(block).tx_hash # None
                       => ext = tx

\* A returned Action whose block has an initiating node outside it with no
\* transaction hash: the empty string joins the hashes of the block's nodes,
\* which are not empty strings.
ExtendedHashesWitness ==
    /\ Returns(1)
    /\ HasInitiating(block)
    /\ ~InitiatingInBlock(block)
    /\ Initiating(block).tx_hash = None
    /\ "" \notin Elems(Act(1).tx_hashes)
    /\ Elems(Act(1).extended_tx_hashes) = Elems(Act(1).tx_hashes) \cup {""}
    /\ Len(Act(1).extended_tx_hashes) = Len(Act(1).tx_hashes) + 1

\* A payload field that is present and not null.
Reported(x) == x # Missing /\ x # None

\* C12: for a swap block, asset is the resolved explicit source asset when the
\* payload reports one and the resolved asset of the incoming leg otherwise, and
\* asset2 is the resolved explicit destination asset when the payload reports
\* one and the resolved asset of the outgoing leg otherwise, whatever the DEX.
SwapExplicitAssetsWin ==
    \A p \in procs :
        Returns(p) /\ block.cls = "JettonSwapBlock" =>
            LET d == block.data
            IN  /\ Act(p).asset =
                       IF Reported(d.source_asset) THEN _addr(d.source_asset)
                       ELSE _addr(d.dex_incoming_transfer.asset)
                /\ Act(p).asset2 =
                       IF Reported(d.destination_asset) THEN _addr(d.destination_asset)
                       ELSE _addr(d.dex_outgoing_transfer.asset)

\* The normalizer of call p has returned.
Normalized(p) == pc[p] \in {"assemble", "done"}

\* C13: from the base converter on, the Action's success is the negation of the
\* block's failure flag, except once the multisig approve normalizer has run:
\* from then on it is the payload's success flag, whatever the failure flag.
SuccessIsNotFailed ==
    \A p \in procs :
        BaseDone(p) =>
            Act(p).success =
                IF block.cls = "MultisigApproveBlock" /\ Normalized(p)
                THEN block.data.success
                ELSE ~block.failed

\* A returned Action of a failed multisig approve block whose payload reports
\* success: the Action is a success, against the failure flag.
SuccessIsNotFailedWitness ==
    /\ Returns(1)
    /\ block.cls = "MultisigApproveBlock"
    /\ block.failed
    /\ block.data.success
    /\ Act(1).success
    /\ ran[1] = <<"_fill_multisig_approve">>

\* C14: a call on a token mint or token burn block with event nodes does not
\* fault, and the Action it returns has asset equal to the token's contract
\* address and each amount field (amount for both, value for mint) null when the
\* payload's is null and the payload's value otherwise.
MintBurnAmounts ==
    \A p \in procs :
        block.cls \in {"JettonMintBlock", "JettonBurnBlock"} /\ block.event_nodes # <<>> =>
            /\ pc[p] # "raised"
            /\ Returns(p) =>
                   /\ Act(p).asset = _addr(jetton_address(block.data.asset))
                   /\ Act(p).amount = OptValue(block.data.amount)
                   /\ block.cls = "JettonMintBlock" =>
                          Act(p).value = OptValue(block.data.ton_amount)

\* The account of the initiating node when it is a message node, else nothing.
InitiatingMessageAccount(b) ==
    IF b.initiating_event_node # <<>> /\ ~b.initiating_event_node[1].is_tick_tock
    THEN {b.initiating_event_node[1].account}
    ELSE {}

\* C15: the accounts of a returned Action are exactly the non-null values among
\* the accounts of the block's event nodes, the Action's final source,
\* source_secondary, destination and destination_secondary, and the account of
\* the initiating node when it is a message node: none is missing and there is
\* nothing else.
AccountsExact ==
    \A p \in procs :
        Returns(p) =>
            Elems(Act(p).accounts) =
                (NodeAccounts(block) \cup Parties(Act(p)) \cup InitiatingMessageAccount(block))
                    \ {None}

\* A returned Action with a null field, a secondary field met in no event node,
\* and a message-borne initiating node whose account is met nowhere else: the
\* three sources each contribute an account of their own.
AccountsExactWitness ==
    /\ Returns(1)
    /\ None \in Parties(Act(1))
    /\ Act(1).source_secondary # None
    /\ Act(1).source_secondary \notin NodeAccounts(block) \cup {Act(1).source, Act(1).destination}
    /\ InitiatingMessageAccount(block) # {}
    /\ InitiatingMessageAccount(block) \cap (NodeAccounts(block) \cup Parties(Act(1))) = {}
    /\ InitiatingMessageAccount(block) \subseteq Elems(Act(1).accounts)
    /\ Act(1).source_secondary \in Elems(Act(1).accounts)
    /\ NodeAccounts(block) \subseteq Elems(Act(1).accounts)

====
